---- MODULE Spec2Model ----
(***************************************************************************)
(* Pillow-Metadata: the XMP field resolver (schemas.XPath), the namespace  *)
(* records and their aggregate (schemas.Schemas), the packet parser        *)
(* (helpers.parse_xml) and the construction of the Metadata object         *)
(* (metadata.Metadata.__post_init__).                                      *)
(*                                                                         *)
(* A Python string is a sequence of one-character strings, so that         *)
(* str.strip() is computed and not assumed.  A Python value is a record    *)
(* [t, v]: t is the Python type, v the payload.                            *)
(***************************************************************************)
EXTENDS Integers, Sequences, FiniteSets, TLC

(***************************************************************************)
(* Bounds of the model.                                                    *)
(***************************************************************************)
\* Nodes of a document beyond its xmpmeta/RDF skeleton and first
\* rdf:Description: attributes, property elements, containers, items and
\* further rdf:Description elements each count one.
MaxNodes == 3
\* rdf:Description elements of a document.
MaxDescriptions == 2
\* Container children of one property element.
MaxContainers == 2
\* Fields of the aggregate that are read.
MaxFields == 2
\* Times lookup runs for one field, for a field whose read keeps raising.
MaxLookups == 2
\* Properties one rdf:Description of a summarised image carries as attributes.
MaxProps == 2
\* Items of the container of a summarised image.
MaxItems == 2
\* Threads that read one field at the same time.
MaxReaders == 2

(***************************************************************************)
(* Python values.                                                          *)
(***************************************************************************)
None == [t |-> "None", v |-> <<>>]
PyStr(s) == [t |-> "str", v |-> s]
PyList(xs) == [t |-> "list", v |-> xs]
PyInt(n) == [t |-> "int", v |-> n]
PyBool(b) == [t |-> "bool", v |-> b]
\* A timestamp is identified by the text it was parsed from.
PyDateTime(s) == [t |-> "datetime", v |-> s]

\* Python truthiness: None, "", [] and {} are false.
Truthy(val) ==
    CASE val.t = "None" -> FALSE
      [] val.t \in {"str", "list", "dict"} -> val.v # <<>>
      [] OTHER -> TRUE

\* isinstance(value, annotation)
IsInstance(val, annotation) == val.t = annotation

Whitespace == {" "}

RECURSIVE LStrip(_)
LStrip(s) ==
    IF s # <<>> /\ Head(s) \in Whitespace THEN LStrip(Tail(s)) ELSE s

RECURSIVE RStrip(_)
RStrip(s) ==
    IF s # <<>> /\ s[Len(s)] \in Whitespace
    THEN RStrip(SubSeq(s, 1, Len(s) - 1))
    ELSE s

\* str.strip()
Strip(s) == RStrip(LStrip(s))

(***************************************************************************)
(* Namespace map and tags.  A tag is the pair (namespace URI, local name)  *)
(* that the code writes in Clark notation, "{uri}local".                   *)
(***************************************************************************)
NS_MAP ==
    [ rdf          |-> "http://www.w3.org/1999/02/22-rdf-syntax-ns#",
      xmp          |-> "http://ns.adobe.com/xap/1.0/",
      xmpRights    |-> "http://ns.adobe.com/xap/1.0/rights/",
      xmpMM        |-> "http://ns.adobe.com/xap/1.0/mm/",
      Iptc4xmpCore |-> "http://iptc.org/std/Iptc4xmpCore/1.0/xmlns/",
      Iptc4xmpExt  |-> "http://iptc.org/std/Iptc4xmpExt/2008-02-29/",
      photoshop    |-> "http://ns.adobe.com/photoshop/1.0/",
      dc           |-> "http://purl.org/dc/elements/1.1/",
      aux          |-> "http://ns.adobe.com/exif/1.0/aux/",
      tiff         |-> "http://ns.adobe.com/tiff/1.0/",
      xml          |-> "http://www.w3.org/XML/1998/namespace" ]

Tag(prefix, local) == <<NS_MAP[prefix], local>>

(***************************************************************************)
(* Field bindings: one XPath descriptor per annotated class attribute.     *)
(* rec is the namespace record (the attribute of Schemas that holds the    *)
(* instance), annotation the declared type that __set_name__ reads from    *)
(* the owner's __annotations__.                                            *)
(***************************************************************************)
XPath(rec, name, xmp_data_type, annotation) ==
    [ rec |-> rec, name |-> name, tag |-> Tag(rec, name),
      datatype |-> xmp_data_type, annotation |-> annotation ]

Xmp ==
    { XPath("xmp", "CreateDate", "text", "datetime"),
      XPath("xmp", "CreatorTool", "text", "str"),
      XPath("xmp", "Identifier", "bag", "list"),
      XPath("xmp", "Label", "text", "str"),
      XPath("xmp", "MetadataDate", "text", "datetime"),
      XPath("xmp", "ModifyDate", "text", "datetime"),
      XPath("xmp", "Nickname", "text", "str"),
      XPath("xmp", "Rating", "text", "int") }

XmpRights ==
    { XPath("xmpRights", "Certificate", "text", "str"),
      XPath("xmpRights", "Marked", "text", "bool"),
      XPath("xmpRights", "Owner", "bag", "list"),
      XPath("xmpRights", "UsageTerms", "text", "str"),
      XPath("xmpRights", "WebStatement", "text", "str") }

XmpMM ==
    { XPath("xmpMM", "DocumentID", "text", "str"),
      XPath("xmpMM", "OriginalDocumentID", "text", "str"),
      XPath("xmpMM", "InstanceID", "text", "str") }

Iptc4XmpCore ==
    { XPath("Iptc4xmpCore", "AltTextAccessibility", "alt", "str"),
      XPath("Iptc4xmpCore", "Location", "text", "str"),
      XPath("Iptc4xmpCore", "CountryCode", "text", "str") }

Iptc4XmpExt ==
    { XPath("Iptc4xmpExt", "PersonInImage", "bag", "list") }

Photoshop ==
    { XPath("photoshop", "DateCreated", "text", "datetime"),
      XPath("photoshop", "Urgency", "text", "int"),
      XPath("photoshop", "City", "text", "str"),
      XPath("photoshop", "State", "text", "str"),
      XPath("photoshop", "TransmissionReference", "text", "str") }

Dc ==
    { XPath("dc", "creator", "bag", "list"),
      XPath("dc", "description", "alt", "str"),
      XPath("dc", "format", "text", "str"),
      XPath("dc", "rights", "alt", "str"),
      XPath("dc", "subject", "bag", "list"),
      XPath("dc", "title", "text", "str") }

Aux ==
    { XPath("aux", "SerialNumber", "text", "str"),
      XPath("aux", "LensInfo", "text", "str"),
      XPath("aux", "Lens", "text", "str"),
      XPath("aux", "LensSerialNumber", "text", "str"),
      XPath("aux", "FlashCompensation", "text", "str"),
      XPath("aux", "FujiRatingAlreadyApplied", "text", "bool") }

Tiff ==
    { XPath("tiff", "Make", "text", "str"),
      XPath("tiff", "Model", "text", "str") }

\* The value shapes XPath.__init__ admits.
XmpDataTypes == {"text", "bag", "alt", "seq"}

\* No class attribute is bound with shape seq (the one ordered array,
\* xmpMM:History, is commented out); this is that binding made with the
\* shape the descriptor admits for it.
History == XPath("xmpMM", "History", "seq", "list")

\* Every field of every namespace record of the aggregate.
SchemaFields ==
    Xmp \cup XmpRights \cup XmpMM \cup Iptc4XmpCore \cup Iptc4XmpExt
        \cup Photoshop \cup Dc \cup Aux \cup Tiff

Fields == SchemaFields \cup {History}

Records == {f.rec : f \in Fields}

FieldOf(rec, name) == CHOOSE f \in Fields : f.rec = rec /\ f.name = name

\* The attribute of a record instance that a field is: (record, name).
\* One cell for all the fields of a record.
FieldId_RecordOnly(f) == <<f.rec, "">>

FieldId(f) == <<f.rec, f.name>>

(***************************************************************************)
(* XML documents, as lxml presents them.  An element is a record of its    *)
(* tag, its text (None when the element has none), its attributes (the     *)
(* pairs (tag, string) in document order) and its children in document     *)
(* order.                                                                  *)
(***************************************************************************)
Element(tag, text, attrib, children) ==
    [tag |-> tag, text |-> text, attrib |-> attrib, children |-> children]

NoAttrib == <<>>

\* key in attrib, attrib[key]
AttribKeys(attrib) == {attrib[i][1] : i \in DOMAIN attrib}
AttribGet(attrib, key) == attrib[CHOOSE i \in DOMAIN attrib : attrib[i][1] = key][2]

RdfTag(local) == Tag("rdf", local)
XmlLang == Tag("xml", "lang")
XmpMetaTag == <<"adobe:ns:meta/", "xmpmeta">>

\* <x:xmpmeta><rdf:RDF> descriptions </rdf:RDF></x:xmpmeta>
Packet(descriptions) ==
    Element(XmpMetaTag, None, NoAttrib,
            <<Element(RdfTag("RDF"), None, NoAttrib, descriptions)>>)

\* What a caller may hold for a document: an lxml ElementTree (with a root,
\* or the empty tree etree.ElementTree() whose getroot() is None), Python's
\* None, or the bytes of a packet that did not parse.
ElementTree(root) == [type |-> "ElementTree", root |-> root]
EmptyTree == ElementTree(None)
NoTree == [type |-> "NoneType", root |-> None]
RawBytes == [type |-> "bytes", root |-> None]

IsElementTree(xml) == xml.type = "ElementTree"

\* The descendants of an element in document order.
RECURSIVE Descendants(_)
RECURSIVE DescendantsOfAll(_)
Descendants(ele) == DescendantsOfAll(ele.children)
DescendantsOfAll(eles) ==
    IF eles = <<>> THEN <<>>
    ELSE <<Head(eles)>> \o Descendants(Head(eles)) \o DescendantsOfAll(Tail(eles))

\* Find with the tag ignored: the first element below the root.
Find_AnyTag(xml, tag) ==
    LET all == Descendants(xml.root)
        props == SelectSeq(all, LAMBDA e : e.tag \notin
                     {RdfTag("RDF"), RdfTag("Description")})
    IN  IF props = <<>> THEN <<>> ELSE <<Head(props)>>

\* xml.find('.//{tag}'): the sequence holding the first descendant of the
\* root with that tag, in document order; the empty sequence for no match
\* (lxml's None).
Find(xml, tag) ==
    LET hits == SelectSeq(Descendants(xml.root), LAMBDA e : e.tag = tag)
    IN  IF hits = <<>> THEN <<>> ELSE <<Head(hits)>>

(***************************************************************************)
(* Type coercion, helpers.cast_datatype.  What it converts is written as   *)
(* the design describes it: strings to datetime by a permissive parser,    *)
(* strings to int through a float, strings to bool.  The kind of error a   *)
(* failed conversion reports is not fixed by the design; ErrorKinds are    *)
(* the two kinds lookup handles and the kind Python's own float() and the  *)
(* date parser report.                                                     *)
(***************************************************************************)
DigitChars == <<"0", "1", "2", "3", "4", "5", "6", "7", "8", "9">>
IsDigit(c) == \E i \in DOMAIN DigitChars : DigitChars[i] = c
DigitVal(c) == (CHOOSE i \in DOMAIN DigitChars : DigitChars[i] = c) - 1

\* The leading digits of a string.
RECURSIVE LeadingDigits(_)
LeadingDigits(s) ==
    IF s # <<>> /\ IsDigit(Head(s)) THEN <<Head(s)>> \o LeadingDigits(Tail(s))
    ELSE <<>>

RECURSIVE DecimalValue(_)
DecimalValue(ds) ==
    IF ds = <<>> THEN 0
    ELSE 10 * DecimalValue(SubSeq(ds, 1, Len(ds) - 1)) + DigitVal(ds[Len(ds)])

\* digits, optionally followed by "." and digits: what float() accepts of
\* the strings of the model
IsNumber(s) ==
    LET int == LeadingDigits(s)
        rest == SubSeq(s, Len(int) + 1, Len(s))
    IN  /\ int # <<>>
        /\ \/ rest = <<>>
           \/ /\ Head(rest) = "."
              /\ LeadingDigits(Tail(rest)) = Tail(rest)

ErrorKinds == {"TypeError", "AssertionError", "ValueError"}

\* [ok |-> TRUE, value |-> the converted value] or [ok |-> FALSE, ...]
cast_datatype(value, data_type) ==
    CASE value.t = "str" /\ data_type = "int" /\ IsNumber(value.v) ->
            [ok |-> TRUE, value |-> PyInt(DecimalValue(LeadingDigits(value.v)))]
      [] value.t = "str" /\ data_type = "datetime" /\ IsNumber(value.v) ->
            [ok |-> TRUE, value |-> PyDateTime(value.v)]
      [] value.t = "str" /\ data_type = "bool" ->
            [ok |-> TRUE, value |-> PyBool(value.v # <<>>)]
      [] OTHER -> [ok |-> FALSE, value |-> None]

(***************************************************************************)
(* XPath.lookup.                                                           *)
(***************************************************************************)
Returned(value) == [raised |-> FALSE, value |-> value, error |-> ""]
Raised(kind) == [raised |-> TRUE, value |-> None, error |-> kind]

\* element.text.strip(): an AttributeError when the element has no text
HasText(ele) == ele.text.t = "str"
StripText(ele) == PyStr(Strip(ele.text.v))

\* The items of a container up to and including the first one whose
\* xml:lang is x-default: the li elements the alt loop visits before break.
IsDefaultLang(li) ==
    XmlLang \in AttribKeys(li.attrib) /\ AttribGet(li.attrib, XmlLang) = "x-default"

AltDefault(lis) == SelectSeq(lis, IsDefaultLang)

\* The try block of lookup: [exc |-> an exception was raised, value |-> ...]
Caught == [exc |-> TRUE, value |-> None]
Found(value) == [exc |-> FALSE, value |-> value]

LookupText(xml, tag) ==
    LET ele == Find(xml, tag)
        desc == Find(xml, RdfTag("Description"))
    IN  IF ele # <<>>
        THEN IF HasText(ele[1]) THEN Found(StripText(ele[1])) ELSE Caught
        ELSE IF desc # <<>> /\ desc[1].attrib # NoAttrib
                            /\ tag \in AttribKeys(desc[1].attrib)
             THEN Found(PyStr(Strip(AttribGet(desc[1].attrib, tag))))
             ELSE Found(None)

\* LookupBag accepting any element that has a first child.
LookupBag_FirstContainer(xml, tag) ==
    LET ele == Find(xml, tag)
    IN  IF ele = <<>> \/ Len(ele[1].children) < 1 THEN Found(None)
        ELSE LET lis == ele[1].children[1].children
             IN  IF \E i \in DOMAIN lis : ~HasText(lis[i]) THEN Caught
                 ELSE Found(PyList([i \in DOMAIN lis |-> Strip(lis[i].text.v)]))

LookupBag(xml, tag) ==
    LET ele == Find(xml, tag)
    IN  IF ele = <<>> \/ Len(ele[1].children) # 1 THEN Found(None)
        ELSE LET lis == ele[1].children[1].children
             IN  IF \E i \in DOMAIN lis : ~HasText(lis[i]) THEN Caught
                 ELSE Found(PyList([i \in DOMAIN lis |-> Strip(lis[i].text.v)]))

\* LookupAlt falling back on the first item when none is x-default.
LookupAlt_FirstItem(xml, tag) ==
    LET ele == Find(xml, tag)
    IN  IF ele = <<>> \/ Len(ele[1].children) # 1 THEN Found(None)
        ELSE LET lis == ele[1].children[1].children
                 hits == IF AltDefault(lis) = <<>> THEN lis ELSE AltDefault(lis)
             IN  IF hits = <<>> THEN Found(None)
                 ELSE IF HasText(hits[1]) THEN Found(StripText(hits[1]))
                 ELSE Caught

LookupAlt(xml, tag) ==
    LET ele == Find(xml, tag)
    IN  IF ele = <<>> \/ Len(ele[1].children) # 1 THEN Found(None)
        ELSE LET hits == AltDefault(ele[1].children[1].children)
             IN  IF hits = <<>> THEN Found(None)
                 ELSE IF HasText(hits[1]) THEN Found(StripText(hits[1]))
                 ELSE Caught

\* lookup(self, xml); kind is the kind of error cast_datatype reports if
\* the conversion fails.
lookup(xml, f, kind) ==
    IF xml.type = "NoneType" THEN Returned(None)
    ELSE IF ~IsElementTree(xml) THEN Raised("AttributeError")
    ELSE IF xml.root = None THEN Returned(None)
    ELSE LET got == CASE f.datatype = "text" -> LookupText(xml, f.tag)
                      [] f.datatype = "bag" -> LookupBag(xml, f.tag)
                      [] f.datatype = "alt" -> LookupAlt(xml, f.tag)
                      [] OTHER -> Found(None)
         IN  IF got.exc THEN Returned(None)
             ELSE IF Truthy(got.value) /\ ~IsInstance(got.value, f.annotation)
                  THEN LET cast == cast_datatype(got.value, f.annotation)
                       IN  IF cast.ok THEN Returned(cast.value)
                           ELSE IF kind \in {"TypeError", "AssertionError"}
                                THEN Returned(None)
                                ELSE Raised(kind)
                  ELSE Returned(got.value)

(***************************************************************************)
(* helpers.parse_xml: the tree of a well-formed packet; for a packet that  *)
(* is not XML the XMLSyntaxError is caught and printed, and the bytes      *)
(* passed in are returned.                                                 *)
(***************************************************************************)
parse_xml(wellformed, root) ==
    IF wellformed THEN ElementTree(root) ELSE RawBytes

(***************************************************************************)
(* Python dictionaries.  A dict is [t |-> "dict", v |-> its items], the    *)
(* items being the pairs (key, value) in insertion order.  While the       *)
(* generic map is built its dicts live in a heap, a sequence of item       *)
(* lists, and a dict held as a value is a reference into the heap: the     *)
(* work queue keeps a dict alive after it was deleted from its parent.     *)
(***************************************************************************)
PyDict(items) == [t |-> "dict", v |-> items]
\* li.attrib stored as a value
PyAttrib(attrib) == [t |-> "_Attrib", v |-> attrib]
Ref(id) == [t |-> "ref", v |-> id]

\* key in d, d[key], d[key] = val, del d[key] on the items of a dict
DictHas(d, key) == \E i \in DOMAIN d : d[i][1] = key
DictGet(d, key) == d[CHOOSE i \in DOMAIN d : d[i][1] = key][2]
DictSet(d, key, val) ==
    IF DictHas(d, key)
    THEN [i \in DOMAIN d |-> IF d[i][1] = key THEN <<key, val>> ELSE d[i]]
    ELSE Append(d, <<key, val>>)
DictDel(d, key) == SelectSeq(d, LAMBDA kv : kv[1] # key)

\* if key not in heap[id]: heap[id][key] = {}
Ensure(heap, id, key) ==
    IF DictHas(heap[id], key) THEN heap
    ELSE Append([heap EXCEPT ![id] = DictSet(@, key, Ref(Len(heap) + 1))], <<>>)

\* The dict at heap[id] with every reference replaced by the dict it is.
RECURSIVE Materialise(_, _)
Materialise(heap, id) ==
    PyDict([i \in DOMAIN heap[id] |->
              <<heap[id][i][1],
                IF heap[id][i][2].t = "ref"
                THEN Materialise(heap, heap[id][i][2].v)
                ELSE heap[id][i][2]>>])

(***************************************************************************)
(* helpers.build_xmp_dictionary: the generic map of a document, built      *)
(* breadth first.                                                          *)
(***************************************************************************)
\* etree.QName(tag).localname
LocalName(tag) == tag[2]

\* ele.prefix: the prefix the packet declares for the namespace of a tag,
\* which is the preferred one of the XMP standard.
Prefix(uri) ==
    IF uri = XmpMetaTag[1] THEN "x"
    ELSE CHOOSE p \in DOMAIN NS_MAP : NS_MAP[p] = uri

\* prefix_map[namespace] if namespace in prefix_map else namespace: the xml
\* namespace is declared by no element and is in no nsmap.
AttribPrefix(uri) == IF uri = NS_MAP.xml THEN uri ELSE Prefix(uri)

\* The attribute loop; id is the dict parent[name].
RECURSIVE SetAttributes(_, _, _)
SetAttributes(heap, id, attrib) ==
    IF attrib = <<>> THEN heap
    ELSE LET key == Head(attrib)[1]
             val == Head(attrib)[2]
             prefix == AttribPrefix(key[1])
             tname == LocalName(key)
             h1 == Ensure(heap, id, prefix)
             pid == DictGet(h1[id], prefix).v
             h2 == IF DictHas(h1[pid], tname) THEN h1
                   ELSE [h1 EXCEPT ![pid] = DictSet(@, tname, PyStr(val))]
         IN  SetAttributes(h2, id, Tail(attrib))

ContainerNames == {"Bag", "Seq", "Alt"}

\* for key, val in li.attrib.items(): if val == 'x-default'
FlaggedDefault(li) == \E i \in DOMAIN li.attrib : li.attrib[i][2] = "x-default"

\* What the li loop leaves at parent[prefix][name]: for Alt the text of the
\* last item flagged x-default, or the empty list the entry started as; for
\* Bag and Seq the list of each item's attributes, or text if it has none.
Promoted(cname, lis) ==
    IF cname = "Alt"
    THEN LET flagged == SelectSeq(lis, FlaggedDefault)
         IN  IF flagged = <<>> THEN PyList(<<>>) ELSE flagged[Len(flagged)].text
    ELSE PyList([i \in DOMAIN lis |->
                    IF lis[i].attrib # NoAttrib THEN PyAttrib(lis[i].attrib)
                    ELSE lis[i].text])

\* The loop over the children of ele, from child kids[1] on; parent is the
\* dict ele was queued with.  del parent[name] and parent[name] raise
\* KeyError when the entry is gone.
RECURSIVE HandleChildren(_, _, _, _, _)
HandleChildren(heap, q, ele, parent, kids) ==
    IF kids = <<>> THEN [raised |-> FALSE, heap |-> heap, q |-> q]
    ELSE LET child == Head(kids)
             name == LocalName(ele.tag)
             cname == LocalName(child.tag)
         IN  IF ~DictHas(heap[parent], name)
             THEN [raised |-> TRUE, heap |-> heap, q |-> q]
             ELSE IF cname \in ContainerNames
             THEN LET h1 == [heap EXCEPT ![parent] = DictDel(@, name)]
                      h2 == Ensure(h1, parent, Prefix(ele.tag[1]))
                      pid == DictGet(h2[parent], Prefix(ele.tag[1])).v
                      h3 == [h2 EXCEPT ![pid] =
                                DictSet(@, name, Promoted(cname, child.children))]
                  IN  HandleChildren(h3, q, ele, parent, Tail(kids))
             ELSE HandleChildren(heap,
                                 Append(q, <<child, DictGet(heap[parent], name).v>>),
                                 ele, parent, Tail(kids))

\* The while loop over the work queue of pairs (element, parent dict).
RECURSIVE Walk(_, _)
Walk(q, heap) ==
    IF q = <<>> THEN [raised |-> FALSE, heap |-> heap]
    ELSE LET ele == Head(q)[1]
             parent == Head(q)[2]
             name == LocalName(ele.tag)
             h1 == Ensure(heap, parent, name)
             h2 == SetAttributes(h1, DictGet(h1[parent], name).v, ele.attrib)
             done == HandleChildren(h2, Tail(q), ele, parent, ele.children)
         IN  IF done.raised THEN [raised |-> TRUE, heap |-> done.heap]
             ELSE Walk(done.q, done.heap)

build_xmp_dictionary(xml) ==
    IF ~IsElementTree(xml) THEN Raised("TypeError")
    ELSE IF xml.root = None THEN Raised("AttributeError")
    ELSE LET walked == Walk(<< <<xml.root, 1>> >>, << <<>> >>)
         IN  IF walked.raised THEN Raised("KeyError")
             ELSE Returned(Materialise(walked.heap, 1))

(***************************************************************************)
(* helpers.build_exif_dictionary and helpers.search_for_schema.            *)
(***************************************************************************)
\* Image.ExifTags.TAGS, the entries of the tag-name table the model uses.
TAGS == (271 :> "Make") @@ (306 :> "DateTime") @@ (36867 :> "DateTimeOriginal")

\* schemas.Exif: the fields the record declares.
ExifFields ==
    { "ResolutionUnit", "ExifOffset", "ImageDescription", "Make", "Model",
      "Software", "Orientation", "DateTime", "DateTimeOriginal", "YResolution",
      "Copyright", "XResolution", "Artist" }

\* exif is the sequence of the pairs (tag id, value) of _exif.items().
RECURSIVE ExifItems(_, _)
ExifItems(exif, exif_metadata) ==
    IF exif = <<>> THEN Returned(PyDict(exif_metadata))
    ELSE IF Head(exif)[1] \notin DOMAIN TAGS THEN Raised("KeyError")
    ELSE ExifItems(Tail(exif),
                   DictSet(exif_metadata, TAGS[Head(exif)[1]], Head(exif)[2]))

build_exif_dictionary(exif) == ExifItems(exif, <<>>)

\* The while loop of search_for_schema over its queue of dicts.
RECURSIVE SearchQueue(_, _)
SearchQueue(q, schema) ==
    IF q = <<>> THEN None
    ELSE LET cur == Head(q)
             dicts == SelectSeq(cur.v, LAMBDA kv : kv[2].t = "dict")
         IN  IF cur.t # "dict" THEN SearchQueue(Tail(q), schema)
             ELSE IF DictHas(cur.v, schema) /\ DictGet(cur.v, schema).t = "dict"
             THEN DictGet(cur.v, schema)
             ELSE SearchQueue(Tail(q) \o [i \in DOMAIN dicts |-> dicts[i][2]], schema)

search_for_schema(metadata_dict, schema) == SearchQueue(<<metadata_dict>>, schema)

(***************************************************************************)
(* metadata.Metadata: the object __post_init__ leaves for an image, or the *)
(* exception it raises.  info_xmp is pil_image.info['xmp'] ("absent" when  *)
(* info has no such key), root the root element of a well-formed packet,   *)
(* exif the pairs of pil_image.getexif(), filename pil_image.filename      *)
(* (None for an image without that attribute).                             *)
(***************************************************************************)
\* The schemas __post_init__ searches the generic map for, in its order.
SearchedSchemas == <<"xmp", "xmpMM", "photoshop", "dc", "tiff">>

\* The fields as their default factories leave them.
NewMetadata ==
    [ raised |-> FALSE, error |-> "",
      metadata_dict |-> PyDict(<<>>),
      filename |-> PyStr(<<>>),
      xmp_xml |-> EmptyTree,
      exif |-> <<>>,
      metadata |-> [i \in DOMAIN SearchedSchemas |-> None] ]

MetadataRaised(kind) == [NewMetadata EXCEPT !.raised = TRUE, !.error = kind]

Metadata(info_xmp, root, exif, filename) ==
    LET has_xmp == info_xmp # "absent"
        xmp_xml == parse_xml(info_xmp = "wellformed", root)
        xmp_dict == build_xmp_dictionary(xmp_xml)
        with_xmp ==
            IF has_xmp /\ DictHas(xmp_dict.value.v, "xmpmeta")
            THEN <<<<"xmpmeta", DictGet(xmp_dict.value.v, "xmpmeta")>>>>
            ELSE <<>>
        exif_dict == build_exif_dictionary(exif)
        metadata_dict ==
            IF exif # <<>> /\ Truthy(exif_dict.value)
            THEN DictSet(with_xmp, "exif", exif_dict.value)
            ELSE with_xmp
        found == [i \in DOMAIN SearchedSchemas |->
                    search_for_schema(PyDict(metadata_dict), SearchedSchemas[i])]
    IN  IF has_xmp /\ xmp_dict.raised THEN MetadataRaised(xmp_dict.error)
        ELSE IF exif # <<>> /\ exif_dict.raised THEN MetadataRaised(exif_dict.error)
        ELSE [ NewMetadata EXCEPT
                 !.filename = IF filename = None THEN @ ELSE filename,
                 !.xmp_xml = IF has_xmp THEN xmp_xml ELSE @,
                 !.exif = exif,
                 !.metadata_dict = PyDict(metadata_dict),
                 !.metadata = [i \in DOMAIN SearchedSchemas |->
                                 IF metadata_dict # <<>> /\ Truthy(found[i])
                                 THEN found[i] ELSE None] ]

(***************************************************************************)
(* Metadata.search_metadata: the value at [prefix][localname] of the first *)
(* dict, breadth first from metadata_dict, that has it.                    *)
(***************************************************************************)
\* localname in cur[prefix].  A dict is tested for the key.  The names
\* searched for are no item of a list the builder makes (its items are
\* texts, attributes or None), no key of an lxml attribute proxy (its keys
\* are in Clark notation) and no part of a text of the model.
Contains(held, localname) == held.t = "dict" /\ DictHas(held.v, localname)

\* The while loop of search_metadata over its queue.
RECURSIVE SearchMetadataQueue(_, _, _)
SearchMetadataQueue(q, prefix, localname) ==
    IF q = <<>> THEN None
    ELSE LET cur == Head(q)
             dicts == SelectSeq(cur.v, LAMBDA kv : kv[2].t = "dict")
         IN  IF cur.t # "dict" THEN SearchMetadataQueue(Tail(q), prefix, localname)
             ELSE IF DictHas(cur.v, prefix)
                     /\ Contains(DictGet(cur.v, prefix), localname)
             THEN DictGet(DictGet(cur.v, prefix).v, localname)
             ELSE SearchMetadataQueue(
                      Tail(q) \o [i \in DOMAIN dicts |-> dicts[i][2]],
                      prefix, localname)

search_metadata(self, prefix, localname) ==
    SearchMetadataQueue(<<self.metadata_dict>>, prefix, localname)

(***************************************************************************)
(* Metadata.get_capture_date.  The result of the call: the formatted date  *)
(* returned, None, or the exception that leaves it.                        *)
(***************************************************************************)
\* dateutil.parser.parse(date_string): a timestamp for a text that holds a
\* date (in the model a number, surrounding blanks ignored), ParserError for
\* any other text, TypeError for a value that is not a text.
dateutil_parse(date_string) ==
    IF date_string.t # "str" THEN Raised("TypeError")
    ELSE IF IsNumber(Strip(date_string.v))
    THEN Returned(PyDateTime(Strip(date_string.v)))
    ELSE Raised("ParserError")

\* date.strftime('%A, %B %d, %Y'): weekday, month and year of the timestamp
\* around the day-of-month text that identifies it.
strftime(date) == PyStr(<<"%A, %B ">> \o date.v \o <<", %Y">>)

\* The sources get_capture_date searches, in its order.
CaptureDateSearch ==
    << <<"xmp", "CreateDate">>, <<"exif", "DateTime">>,
       <<"exif", "DateTimeOriginal">> >>

\* The while loop: date_string after the search, "" when nothing is found.
RECURSIVE DateString(_, _)
DateString(self, search) ==
    IF search = <<>> THEN PyStr(<<>>)
    ELSE LET capture_date == search_metadata(self, Head(search)[1], Head(search)[2])
         IN  IF Truthy(capture_date) THEN capture_date
             ELSE DateString(self, Tail(search))

\* What the file system answers to Path(filename).stat().st_birthtime: the
\* creation time of the file, no such attribute on a platform that does not
\* record creation times, or no such file.  Path("") is the current
\* directory, which exists.
FileStats(filename) ==
    {"birthtime", "AttributeError"}
        \cup (IF filename.v = <<>> THEN {} ELSE {"FileNotFoundError"})

\* The timestamp of the creation of the image file.
BirthTime == PyDateTime(<<"0">>)

\* A Path object is true whatever its path is: the elif branch is always
\* taken when no date string was found, and 'return None' is never reached.
PathTruthy(filename) == TRUE

get_capture_date(self, stat) ==
    LET date_string == DateString(self, CaptureDateSearch)
        date == dateutil_parse(date_string)
    IN  IF Truthy(date_string)
        THEN IF date.raised THEN date ELSE Returned(strftime(date.value))
        ELSE IF PathTruthy(self.filename)
        THEN IF stat = "birthtime" THEN Returned(strftime(BirthTime))
             ELSE Raised(stat)
        ELSE Returned(None)

(***************************************************************************)
(* Metadata.image_info.                                                    *)
(***************************************************************************)
\* sep.join(parts) for texts; parts is a sequence of sequences of characters
RECURSIVE Join(_, _)
Join(sep, parts) ==
    IF parts = <<>> THEN <<>>
    ELSE IF Len(parts) = 1 THEN parts[1]
    ELSE parts[1] \o sep \o Join(sep, Tail(parts))

\* The items str.join iterates over: the items of a list, the characters of
\* a text.  join raises TypeError for an item that is not a text.
JoinItems(val) ==
    IF val.t = "list" THEN val.v
    ELSE [i \in DOMAIN val.v |-> PyStr(<<val.v[i]>>)]

Joinable(val) ==
    /\ val.t \in {"list", "str"}
    /\ \A i \in DOMAIN JoinItems(val) : JoinItems(val)[i].t = "str"

JoinValue(sep, val) == Join(sep, [i \in DOMAIN JoinItems(val) |-> JoinItems(val)[i].v])

\* The places image_info takes the location from, in its order.
LocationSearch ==
    << <<"Iptc4xmpCore", "Location">>, <<"photoshop", "City">>,
       <<"photoshop", "State">> >>

\* location: the values found that are true, in the order of the search
Location(self) ==
    LET found == [i \in DOMAIN LocationSearch |->
                    search_metadata(self, LocationSearch[i][1], LocationSearch[i][2])]
    IN  SelectSeq(found, Truthy)

image_info(self, stat) ==
    LET capture_date == get_capture_date(self, stat)
        description == search_metadata(self, "dc", "description")
        keywords == search_metadata(self, "dc", "subject")
        location == Location(self)
        line1 == IF Truthy(capture_date.value)
                 THEN << <<"Date Created: ">> \o capture_date.value.v >> ELSE <<>>
        line2 == IF Truthy(description)
                 THEN << <<"Description: ">> \o description.v >> ELSE <<>>
        line3 == IF Truthy(keywords)
                 THEN << <<"Keywords: ">> \o JoinValue(<<",", " ">>, keywords) >>
                 ELSE <<>>
        line4 == IF location # <<>>
                 THEN << <<"Location: ">> \o JoinValue(<<",", " ">>, PyList(location)) >>
                 ELSE <<>>
    IN  IF capture_date.raised THEN capture_date
        ELSE IF Truthy(description) /\ description.t # "str" THEN Raised("TypeError")
        ELSE IF Truthy(keywords) /\ ~Joinable(keywords) THEN Raised("TypeError")
        ELSE IF ~Joinable(PyList(location)) THEN Raised("TypeError")
        ELSE Returned(PyStr(Join(<<"\n">>, line1 \o line2 \o line3 \o line4)))

(***************************************************************************)
(* The packets of the model.                                               *)
(***************************************************************************)
\* The fields the reader accesses: one binding of each shape, and one text
\* binding with a declared type other than str.
ReadFields ==
    { FieldOf("xmp", "Label"), FieldOf("xmp", "Rating"),
      FieldOf("dc", "subject"), FieldOf("dc", "description"), History }

\* The properties a packet of the model may carry.
DocTags == {f.tag : f \in ReadFields}

Langs == {"", "en", "x-default"}
ItemTexts == {None, PyStr(<<" ", "a">>), PyStr(<<"b">>)}
ElemTexts == {None, PyStr(<<" ">>), PyStr(<<" ", "a">>), PyStr(<<"3", " ">>)}
AttrVals == {<<"a", " ">>, <<"3">>}
\* The Exif data of an image: none, a date, a tag the tag-name table does
\* not have, and two tags.
Exifs ==
    { <<>>,
      << <<306, PyStr(<<"3">>)>> >>,
      << <<65000, PyStr(<<"a">>)>> >>,
      << <<271, PyStr(<<"a">>)>>, <<36867, PyStr(<<"3">>)>> >> }
Filenames == {None, PyStr(<<"a">>)}
\* rdf:about=""
AboutVal == <<>>

\* <rdf:li xml:lang=lang>text</rdf:li>; lang = "" is no xml:lang attribute.
Item(lang, text) ==
    Element(RdfTag("li"), text,
            IF lang = "" THEN NoAttrib ELSE <<<<XmlLang, lang>>>>, <<>>)

\* The properties of the model that are arrays, with the container the XMP
\* standard prescribes for each: an unordered array for dc:subject, a
\* language alternative for dc:description, an ordered array for
\* xmpMM:History.  The other properties are simple.
ArrayKind ==
    (Tag("dc", "subject") :> "Bag") @@ (Tag("dc", "description") :> "Alt")
        @@ (Tag("xmpMM", "History") :> "Seq")

\* The items a container holds: those of a language alternative may carry
\* xml:lang, those of an array carry none.
ItemLangs(container) == IF container.tag = RdfTag("Alt") THEN Langs ELSE {""}

RECURSIVE Sum(_)
Sum(ns) == IF ns = <<>> THEN 0 ELSE Head(ns) + Sum(Tail(ns))

\* The nodes of a property element: itself, each container after the first
\* and each item.
ElementNodes(e) ==
    1 + (IF Len(e.children) > 1 THEN Len(e.children) - 1 ELSE 0)
      + Sum([i \in DOMAIN e.children |-> Len(e.children[i].children)])

\* The nodes of a sequence of rdf:Description elements: each one after the
\* first, each attribute and the nodes of each property element.
Nodes(ds) ==
    (IF Len(ds) > 1 THEN Len(ds) - 1 ELSE 0)
    + Sum([i \in DOMAIN ds |->
             Len(ds[i].attrib)
             + Sum([j \in DOMAIN ds[i].children |-> ElementNodes(ds[i].children[j])])])

\* The properties a sequence of rdf:Description elements carries, in
\* attribute or in element form.
Properties(ds) ==
    UNION {(AttribKeys(ds[i].attrib) \ {RdfTag("about")})
             \cup {ds[i].children[j].tag : j \in DOMAIN ds[i].children} :
           i \in DOMAIN ds}

(***************************************************************************)
(* State.                                                                  *)
(***************************************************************************)
VARIABLES
    xmp,        \* the image's packet: "absent", "malformed" or "wellformed"
    descs,      \* the rdf:Description elements of a well-formed packet
    pc,         \* "image", "parsed", "built", "TypeError" or "metadata"
    xml_tree,   \* the document handed to Schemas
    cache,      \* instance.__dict__ of the namespace records: field -> value
    queries,    \* field -> the number of times lookup ran for it
    last,       \* the last read: its field and what it returned or raised
    pil_image,  \* the Exif pairs and filename of the image given to Metadata
    metadata,   \* the Metadata object built for the image
    result,     \* the last call of a method of the Metadata object
    readers     \* the threads reading one field of one record at a time

vars == <<xmp, descs, pc, xml_tree, cache, queries, last, pil_image, metadata,
          result, readers>>

NoImage == [exif |-> <<>>, filename |-> None]

NoRead == [field |-> None, out |-> Returned(None)]

NoCall == [method |-> "", args |-> <<>>, out |-> Returned(None)]

\* No thread is reading.
NoReaders == [field |-> None, kind |-> "", at |-> <<>>, out |-> <<>>]

Init ==
    /\ xmp \in {"absent", "malformed", "wellformed"}
    /\ descs = <<>>
    /\ pc = "image"
    /\ xml_tree = NoTree
    /\ cache = <<>>
    /\ queries = [id \in {FieldId(f) : f \in ReadFields} |-> 0]
    /\ last = NoRead
    /\ pil_image = NoImage
    /\ metadata = NewMetadata
    /\ result = NoCall
    /\ readers = NoReaders

(***************************************************************************)
(* The producer of the image writes a well-formed packet, node by node in  *)
(* document order.  A packet of the model carries one property.            *)
(***************************************************************************)
Composing == pc = "image" /\ xmp = "wellformed" /\ Nodes(descs) < MaxNodes

ProgramUnchanged ==
    UNCHANGED <<xmp, pc, xml_tree, cache, queries, last, pil_image, metadata,
                result, readers>>

AddDescription ==
    /\ pc = "image" /\ xmp = "wellformed"
    /\ Len(descs) < MaxDescriptions
    /\ descs = <<>> \/ Nodes(descs) < MaxNodes
    /\ descs' = Append(descs, Element(RdfTag("Description"), None, NoAttrib, <<>>))
    /\ ProgramUnchanged

AddAttribute(key, val) ==
    /\ Composing
    /\ descs # <<>>
    /\ LET d == descs[Len(descs)]
       IN  /\ d.children = <<>>
           /\ key \notin AttribKeys(d.attrib)
           /\ key = RdfTag("about") \/ (val \in AttrVals /\ Properties(descs) \subseteq {key})
           /\ key = RdfTag("about") => val = AboutVal
           /\ descs' = [descs EXCEPT ![Len(descs)].attrib = Append(@, <<key, val>>)]
    /\ ProgramUnchanged

AddProperty(tag, text) ==
    /\ Composing
    /\ descs # <<>>
    /\ descs[Len(descs)].children = <<>>
    /\ Properties(descs) \subseteq {tag}
    /\ descs' = [descs EXCEPT ![Len(descs)].children =
                    <<Element(tag, text, NoAttrib, <<>>)>>]
    /\ ProgramUnchanged

AddContainer ==
    /\ Composing
    /\ descs # <<>>
    /\ descs[Len(descs)].children # <<>>
    /\ LET e == descs[Len(descs)].children[1]
       IN  /\ e.text = None
           /\ e.tag \in DOMAIN ArrayKind
           /\ Len(e.children) < MaxContainers
           /\ descs' = [descs EXCEPT ![Len(descs)].children[1].children =
                          Append(@, Element(RdfTag(ArrayKind[e.tag]),
                                            None, NoAttrib, <<>>))]
    /\ ProgramUnchanged

AddItem(lang, text) ==
    /\ Composing
    /\ descs # <<>>
    /\ descs[Len(descs)].children # <<>>
    /\ LET e == descs[Len(descs)].children[1]
       IN  /\ e.children # <<>>
           /\ lang \in ItemLangs(e.children[Len(e.children)])
           /\ descs' = [descs EXCEPT
                          ![Len(descs)].children[1].children[Len(e.children)].children =
                              Append(@, Item(lang, text))]
    /\ ProgramUnchanged

(***************************************************************************)
(* The caller parses the packet for the aggregate.  With no packet in the  *)
(* image it has no document: None, or the empty tree.                      *)
(***************************************************************************)
Parse ==
    /\ pc = "image"
    /\ \/ xmp # "absent" /\ xml_tree' = parse_xml(xmp = "wellformed", Packet(descs))
       \/ xmp = "absent" /\ xml_tree' \in {NoTree, EmptyTree}
    /\ pc' = "parsed"
    /\ UNCHANGED <<xmp, descs, cache, queries, last, pil_image, metadata,
                   result, readers>>

(***************************************************************************)
(* Schemas.__post_init__: one instance of each namespace record, each      *)
(* checked by Xml.__post_init__, which raises TypeError for anything that  *)
(* is not an ElementTree.                                                  *)
(***************************************************************************)
XmlPostInit(tree) == IF IsElementTree(tree) THEN "built" ELSE "TypeError"

SchemasPostInit ==
    /\ pc = "parsed"
    /\ pc' = XmlPostInit(xml_tree)
    /\ cache' = <<>>
    /\ UNCHANGED <<xmp, descs, xml_tree, queries, last, pil_image, metadata,
                   result, readers>>

(***************************************************************************)
(* Reading attribute f.name of record f.rec.  XPath defines __get__ only,  *)
(* so an entry of the instance's __dict__ shadows the descriptor: __get__  *)
(* runs only while the instance has no entry of that name.                 *)
(***************************************************************************)
\* The kinds of error a conversion to the declared type of f may report; a
\* str or a list is what lookup finds, and is not converted.
ConversionErrors(f) ==
    IF f.annotation \in {"str", "list"} THEN {"TypeError"} ELSE ErrorKinds

\* The fields read so far: those lookup ran for.
FieldsRead == {f \in ReadFields : queries[FieldId(f)] > 0}

Get(f, kind) ==
    /\ pc = "built"
    /\ IF FieldId(f) \in DOMAIN cache
       THEN /\ last' = [field |-> f, out |-> Returned(cache[FieldId(f)])]
            /\ UNCHANGED <<cache, queries>>
       ELSE LET out == lookup(xml_tree, f, kind)
            IN  /\ f \in FieldsRead \/ Cardinality(FieldsRead) < MaxFields
                /\ queries[FieldId(f)] < MaxLookups
                /\ queries' = [queries EXCEPT ![FieldId(f)] = @ + 1]
                /\ cache' = IF out.raised THEN cache
                            ELSE cache @@ (FieldId(f) :> out.value)
                /\ last' = [field |-> f, out |-> out]
    /\ UNCHANGED <<xmp, descs, pc, xml_tree, pil_image, metadata, result, readers>>

(***************************************************************************)
(* Metadata(pil_image) for the image, with its packet, Exif data and       *)
(* filename.                                                               *)
(***************************************************************************)
MetadataPostInit(exif, filename) ==
    /\ pc = "image"
    /\ pc' = "metadata"
    /\ pil_image' = [exif |-> exif, filename |-> filename]
    /\ metadata' = Metadata(xmp, Packet(descs), exif, filename)
    /\ UNCHANGED <<xmp, descs, xml_tree, cache, queries, last, result, readers>>

Next ==
    \/ AddDescription
    \/ \E key \in DocTags \cup {RdfTag("about")}, val \in AttrVals \cup {AboutVal} :
          AddAttribute(key, val)
    \/ \E tag \in DocTags, text \in ElemTexts : AddProperty(tag, text)
    \/ AddContainer
    \/ \E lang \in Langs, text \in ItemTexts : AddItem(lang, text)
    \/ Parse
    \/ SchemasPostInit
    \/ \E f \in ReadFields : \E kind \in ConversionErrors(f) : Get(f, kind)
    \/ \E exif \in Exifs, filename \in Filenames : MetadataPostInit(exif, filename)

Spec == Init /\ [][Next]_vars

(***************************************************************************)
(* The methods of a Metadata object, called on the object built for an     *)
(* image whose packet carries the properties they search for.              *)
(***************************************************************************)
\* The properties get_capture_date and image_info search for, and
\* photoshop:DateCreated, as attributes of rdf:Description.
MetaAttribs ==
    << Tag("xmp", "CreateDate"), Tag("photoshop", "DateCreated"),
       Tag("Iptc4xmpCore", "Location"), Tag("photoshop", "City"),
       Tag("photoshop", "State") >>

\* The attribute lists of an rdf:Description: up to MaxProps of the
\* properties, in the order above, each with one of the values.
AttribLists ==
    { SelectSeq([i \in DOMAIN MetaAttribs |-> <<MetaAttribs[i], val[i]>>],
                LAMBDA kv : kv[1] \in keys) :
        keys \in {K \in SUBSET {MetaAttribs[i] : i \in DOMAIN MetaAttribs} :
                    Cardinality(K) <= MaxProps},
        val \in [DOMAIN MetaAttribs -> AttrVals] }

MetaTexts == {PyStr(<<"3", " ">>), PyStr(<<" ", "a">>)}

\* The lists of up to MaxItems items.
MetaItemTexts == {None, PyStr(<<"b">>)}
ItemLists == UNION {[1..n -> MetaItemTexts] : n \in 0..MaxItems}

\* The property elements of an rdf:Description: none, a date or a city in
\* element form, the keywords, or the description in one language.
MetaChildren ==
    {<<>>}
    \cup { <<Element(tag, text, NoAttrib, <<>>)>> :
             tag \in {Tag("xmp", "CreateDate"), Tag("photoshop", "City")},
             text \in MetaTexts }
    \cup { <<Element(Tag("dc", "subject"), None, NoAttrib,
                     <<Element(RdfTag("Bag"), None, NoAttrib,
                               [i \in DOMAIN ts |-> Item("", ts[i])])>>)>> :
             ts \in ItemLists }
    \cup { <<Element(Tag("dc", "description"), None, NoAttrib,
                     <<Element(RdfTag("Alt"), None, NoAttrib,
                               <<Item(lang, text)>>)>>)>> :
             lang \in Langs, text \in MetaItemTexts }

MetaDocs ==
    { <<Element(RdfTag("Description"), None, attrib, children)>> :
        attrib \in AttribLists, children \in MetaChildren }

MetaInit ==
    /\ xmp \in {"absent", "malformed", "wellformed"}
    /\ descs \in (IF xmp = "wellformed" THEN MetaDocs ELSE {<<>>})
    /\ pc = "image"
    /\ xml_tree = NoTree
    /\ cache = <<>>
    /\ queries = [id \in {FieldId(f) : f \in ReadFields} |-> 0]
    /\ last = NoRead
    /\ pil_image = NoImage
    /\ metadata = NewMetadata
    /\ result = NoCall
    /\ readers = NoReaders

\* __post_init__ returned: there is a Metadata object to call.
Constructed == pc = "metadata" /\ ~metadata.raised

\* Pairs (prefix, localname) a caller searches for: a property held as an
\* attribute, an Exif tag, an array and a property held as an element.
Searches ==
    { <<"xmp", "CreateDate">>, <<"exif", "DateTime">>, <<"dc", "subject">>,
      <<"photoshop", "City">> }

ObjectUnchanged ==
    UNCHANGED <<xmp, descs, pc, xml_tree, cache, queries, last, pil_image,
                metadata, readers>>

SearchMetadata(prefix, localname) ==
    /\ Constructed
    /\ result' = [ method |-> "search_metadata", args |-> <<prefix, localname>>,
                   out |-> Returned(search_metadata(metadata, prefix, localname)) ]
    /\ ObjectUnchanged

\* stat is what the file system answers should the method ask it.
GetCaptureDate(stat) ==
    /\ Constructed
    /\ stat \in FileStats(metadata.filename)
    /\ result' = [ method |-> "get_capture_date", args |-> <<stat>>,
                   out |-> get_capture_date(metadata, stat) ]
    /\ ObjectUnchanged

ImageInfo(stat) ==
    /\ Constructed
    /\ stat \in FileStats(metadata.filename)
    /\ result' = [ method |-> "image_info", args |-> <<stat>>,
                   out |-> image_info(metadata, stat) ]
    /\ ObjectUnchanged

StatAnswers == {"birthtime", "AttributeError", "FileNotFoundError"}

MetaNext ==
    \/ \E exif \in Exifs, filename \in Filenames : MetadataPostInit(exif, filename)
    \/ \E s \in Searches : SearchMetadata(s[1], s[2])
    \/ \E stat \in StatAnswers : GetCaptureDate(stat)
    \/ \E stat \in StatAnswers : ImageInfo(stat)

MetaSpec == MetaInit /\ [][MetaNext]_vars

(***************************************************************************)
(* Threads reading the same field of the same record for the first time.   *)
(* A read is the attribute access, which finds the entry of the instance's *)
(* __dict__ or enters XPath.__get__, and then the statements of __get__:   *)
(* the lookup, the store into __dict__, the return.  Another thread may    *)
(* run between any two of them.                                            *)
(***************************************************************************)
Readers == 1..MaxReaders

\* The fields the threads read: a text field of a declared type other than
\* str, a text field, an array and a language alternative.
RaceFields ==
    { FieldOf("xmp", "CreateDate"), FieldOf("photoshop", "City"),
      FieldOf("dc", "subject"), FieldOf("dc", "description") }

\* The documents the record holds: one rdf:Description with at most one
\* property.
RaceDocs == {d \in MetaDocs : Len(d[1].attrib) + Len(d[1].children) <= 1}

\* The aggregate was built on the document; no thread has read yet.  The
\* conversion of a given text fails the same way every time it is tried.
RaceInit ==
    /\ xmp = "wellformed"
    /\ descs \in RaceDocs
    /\ pc = "built"
    /\ xml_tree = parse_xml(TRUE, Packet(descs))
    /\ cache = <<>>
    /\ queries = [id \in {FieldId(f) : f \in RaceFields} |-> 0]
    /\ last = NoRead
    /\ pil_image = NoImage
    /\ metadata = NewMetadata
    /\ result = NoCall
    /\ readers \in { [ field |-> f, kind |-> kind,
                        at |-> [r \in Readers |-> "idle"],
                        out |-> [r \in Readers |-> Returned(None)] ] :
                      f \in RaceFields, kind \in ErrorKinds }
    /\ readers.kind \in ConversionErrors(readers.field)

\* The value stored under the local name of the tag alone, a cell no
\* attribute access looks at.
SetItem_UnderTag(d, key, value) == (<<"", key[2]>> :> value) @@ d

\* instance.__dict__[self.attrib_name] = value
SetItem(d, key, value) == (key :> value) @@ d

RaceUnchanged ==
    UNCHANGED <<xmp, descs, pc, xml_tree, last, pil_image, metadata, result>>

\* The attribute access of thread r.
Access(r) ==
    /\ pc = "built"
    /\ readers.at[r] = "idle"
    /\ IF FieldId(readers.field) \in DOMAIN cache
       THEN readers' = [readers EXCEPT
                           !.at[r] = "done",
                           !.out[r] = Returned(cache[FieldId(readers.field)])]
       ELSE readers' = [readers EXCEPT !.at[r] = "lookup"]
    /\ UNCHANGED <<cache, queries>>
    /\ RaceUnchanged

\* value = self.lookup(instance._xml_tree) in thread r
Lookup(r) ==
    /\ readers.at[r] = "lookup"
    /\ LET out == lookup(xml_tree, readers.field, readers.kind)
       IN  readers' = [readers EXCEPT
                          !.at[r] = IF out.raised THEN "done" ELSE "store",
                          !.out[r] = out]
    /\ queries' = [queries EXCEPT ![FieldId(readers.field)] = @ + 1]
    /\ UNCHANGED cache
    /\ RaceUnchanged

\* instance.__dict__[self.attrib_name] = value; return value in thread r
Store(r) ==
    /\ readers.at[r] = "store"
    /\ cache' = SetItem(cache, FieldId(readers.field), readers.out[r].value)
    /\ readers' = [readers EXCEPT !.at[r] = "done"]
    /\ UNCHANGED queries
    /\ RaceUnchanged

RaceNext == \E r \in Readers : Access(r) \/ Lookup(r) \/ Store(r)

RaceSpec == RaceInit /\ [][RaceNext]_vars

(***************************************************************************)
(* What the claims speak of, read off the document itself.                 *)
(***************************************************************************)
\* A field has been read, and the read is the last thing that happened.
HasRead == last # NoRead

\* The elements of the document below its root, in document order.
DocElements ==
    IF IsElementTree(xml_tree) /\ xml_tree.root # None
    THEN Descendants(xml_tree.root) ELSE <<>>

\* The elements tagged tag, in document order.
Tagged(tag) == SelectSeq(DocElements, LAMBDA e : e.tag = tag)

\* C2: a field whose tag has no element in the document and is no attribute
\* of any rdf:Description reads as None and does not raise, whatever its
\* shape.
NoTrace(tag) ==
    /\ Tagged(tag) = <<>>
    /\ \A i \in DOMAIN DocElements :
          DocElements[i].tag = RdfTag("Description")
              => tag \notin AttribKeys(DocElements[i].attrib)

C2_AbsentFieldIsNone ==
    (HasRead /\ NoTrace(last.field.tag)) => last.out = Returned(None)

\* C2 on a document that has descriptions, attributes and elements of
\* another property, for a bag field.
C2_Witness ==
    /\ HasRead /\ NoTrace(last.field.tag)
    /\ last.field.datatype = "bag"
    /\ Len(descs) = 2
    /\ descs[1].attrib # NoAttrib
    /\ descs[2].children # <<>>

\* The first element tagged with the tag of the field last read, and the
\* items of its only child.
LastElement == Tagged(last.field.tag)[1]
LastItems == LastElement.children[1].children

ReadOf(shape) == HasRead /\ last.field.datatype = shape
ElementFound == Tagged(last.field.tag) # <<>>
OneContainer == ElementFound /\ Len(LastElement.children) = 1

\* The trimmed text of an element; None for an element without text.
TrimmedText(ele) == IF HasText(ele) THEN PyStr(Strip(ele.text.v)) ELSE None

\* C1: lookup runs at most once for a field of a record, and a read of a
\* field that is cached returns the value the first read stored.
C1_LookupAtMostOnce ==
    /\ \A id \in DOMAIN queries : queries[id] <= 1
    /\ (HasRead /\ FieldId(last.field) \in DOMAIN cache)
          => last.out = Returned(cache[FieldId(last.field)])

\* C3: an alt field whose element has a single container child reads as the
\* trimmed text of the first item whose xml:lang is x-default (None if that
\* item has no text), and as None when no item is x-default.
C3_AltResolvesFirstDefault ==
    (ReadOf("alt") /\ OneContainer) =>
        LET lis == LastItems
            defaults == {i \in DOMAIN lis : IsDefaultLang(lis[i])}
        IN  IF defaults = {} THEN last.out = Returned(None)
            ELSE \E i \in defaults :
                    /\ \A j \in defaults : i <= j
                    /\ last.out = Returned(TrimmedText(lis[i]))

\* C3 where the default item is not the first item of the container.
C3_Witness ==
    /\ ReadOf("alt") /\ OneContainer
    /\ Len(LastItems) = 2
    /\ LastItems[1].attrib = <<<<XmlLang, "en">>>>
    /\ LastItems[1].text = PyStr(<<" ", "a">>)
    /\ IsDefaultLang(LastItems[2])
    /\ last.out = Returned(PyStr(<<"b">>))

\* C4: a bag field whose element has exactly one container child reads as
\* the sequence of the trimmed texts of all the items of that container, in
\* document order.
C4_BagResolvesAllItems ==
    (ReadOf("bag") /\ OneContainer) =>
        /\ ~last.out.raised
        /\ last.out.value.t = "list"
        /\ Len(last.out.value.v) = Len(LastItems)
        /\ \A i \in DOMAIN LastItems :
              HasText(LastItems[i]) =>
                  last.out.value.v[i] = Strip(LastItems[i].text.v)

\* C5: a seq field whose element has a single container child, all of whose
\* items have text, reads as the sequence of the trimmed texts of the items,
\* as a bag field does.
C5_SeqResolvesAsBag ==
    (ReadOf("seq") /\ OneContainer
       /\ \A i \in DOMAIN LastItems : HasText(LastItems[i])) =>
        last.out = Returned(PyList([i \in DOMAIN LastItems |->
                                       Strip(LastItems[i].text.v)]))

\* C6: a bag field whose element is present with no child or with more than
\* one child reads as None and does not raise.
C6_AmbiguousBagIsNone ==
    (ReadOf("bag") /\ ElementFound /\ Len(LastElement.children) # 1)
        => last.out = Returned(None)

\* C6 for an element with two containers, the first of which holds an item.
C6_Witness ==
    /\ ReadOf("bag") /\ ElementFound
    /\ Len(LastElement.children) = 2
    /\ LastElement.children[1].children # <<>>
    /\ HasText(LastElement.children[1].children[1])
    /\ last.out = Returned(None)

\* The string lookup finds for the text field last read cannot be converted
\* to the declared type of the field.
Unconvertible ==
    /\ ReadOf("text")
    /\ IsElementTree(xml_tree) /\ xml_tree.root # None
    /\ LET got == LookupText(xml_tree, last.field.tag)
       IN  /\ ~got.exc
           /\ Truthy(got.value)
           /\ ~IsInstance(got.value, last.field.annotation)
           /\ ~cast_datatype(got.value, last.field.annotation).ok

\* C7: a read whose value cannot be converted to the declared type returns
\* None and raises nothing, whatever error the conversion reports.
C7_FailedConversionIsNone ==
    Unconvertible => last.out = Returned(None)

\* The rdf:Description elements that carry the tag as an attribute, in
\* document order.
Carriers(tag) ==
    SelectSeq(DocElements,
              LAMBDA e : e.tag = RdfTag("Description")
                            /\ tag \in AttribKeys(e.attrib))

\* C8: a text field with no element in the document reads as the trimmed
\* value of its attribute on the first rdf:Description that carries it
\* (converted to the declared type), and as None only if none carries it.
C8_AttributeOfFirstCarrier ==
    (ReadOf("text") /\ IsElementTree(xml_tree) /\ ~ElementFound) =>
        LET cs == Carriers(last.field.tag)
            raw == PyStr(Strip(AttribGet(cs[1].attrib, last.field.tag)))
        IN  IF cs = <<>> THEN last.out = Returned(None)
            ELSE IF IsInstance(raw, last.field.annotation)
                 THEN last.out = Returned(raw)
                 ELSE cast_datatype(raw, last.field.annotation).ok
                        => last.out = Returned(cast_datatype(raw, last.field.annotation).value)

\* C9: the aggregate is built for an absent document and for an empty one,
\* and every field of every record then reads as None.
C9_AbsentDocumentBuilds ==
    (pc \in {"built", "TypeError"} /\ xml_tree \in {NoTree, EmptyTree}) =>
        /\ pc = "built"
        /\ \A f \in Fields, kind \in ErrorKinds :
              lookup(xml_tree, f, kind) = Returned(None)

\* Every tag id of the Exif pairs is in the tag-name table.
KnownTags(exif) == \A i \in DOMAIN exif : exif[i][1] \in DOMAIN TAGS

\* C10: constructing Metadata for an image whose packet is not well-formed
\* XML does not raise; the object has no xmpmeta entry, as for an image
\* without a packet, and holds the Exif pairs of the image and their map.
C10_MalformedPacketKeepsExif ==
    (pc = "metadata" /\ xmp = "malformed" /\ KnownTags(pil_image.exif)) =>
        /\ ~metadata.raised
        /\ ~DictHas(metadata.metadata_dict.v, "xmpmeta")
        /\ metadata.exif = pil_image.exif
        /\ pil_image.exif # <<>> =>
              /\ DictHas(metadata.metadata_dict.v, "exif")
              /\ DictGet(metadata.metadata_dict.v, "exif")
                    = build_exif_dictionary(pil_image.exif).value

\* Parse has returned to its caller, which holds what parse_xml gave it.
ParseReturned == pc = "parsed"

\* C11: parsing a packet that is not well-formed XML fails with a parse
\* error that reaches the caller: parse_xml never returns a value for it, so
\* the caller is never left holding a result for a corrupt packet.
C11_ParseErrorPropagates ==
    xmp = "malformed" => ~(ParseReturned /\ xml_tree = parse_xml(FALSE, Packet(descs)))

\* The last call on the Metadata object was of this method.
Called(method) == pc = "metadata" /\ result.method = method

\* The sources of the capture date by priority, highest first.
CapturePriority ==
    << {<<"xmp", "CreateDate">>},
       {<<"exif", "DateTimeOriginal">>, <<"exif", "DateTime">>},
       {<<"photoshop", "DateCreated">>} >>

\* The values the object holds for the sources of one priority.
SourceValues(level) ==
    {v \in {search_metadata(metadata, s[1], s[2]) : s \in CapturePriority[level]} :
        Truthy(v)}

\* The capture date taken from one value: the formatted date, or the error
\* of a value that holds no date.
FromSource(v) ==
    IF dateutil_parse(v).raised THEN dateutil_parse(v)
    ELSE Returned(strftime(dateutil_parse(v).value))

\* C12: the capture date is taken from the present source of the highest
\* priority, in the order xmp.CreateDate, then exif.DateTimeOriginal or
\* DateTime, then photoshop.DateCreated; photoshop.DateCreated is used when
\* it is the only source present.
C12_CaptureDatePriority ==
    Called("get_capture_date") =>
        \A level \in DOMAIN CapturePriority :
            (/\ SourceValues(level) # {}
             /\ \A higher \in 1..(level - 1) : SourceValues(higher) = {})
            => result.out \in {FromSource(v) : v \in SourceValues(level)}

\* The elements of the packet of the image below its root.
PacketElements ==
    {Descendants(Packet(descs))[i] : i \in DOMAIN Descendants(Packet(descs))}

\* The xmp:CreateDate elements of the packet that hold text.
CreateDateElements ==
    {e \in PacketElements : e.tag = Tag("xmp", "CreateDate") /\ HasText(e)}

\* C13: for a well-formed packet with xmp:CreateDate in element form, the
\* capture date is the date taken from the text of that element, whatever
\* else the packet and the Exif data hold.
C13_CreateDateElementWins ==
    (Called("get_capture_date") /\ xmp = "wellformed" /\ CreateDateElements # {}) =>
        result.out \in {FromSource(e.text) : e \in CreateDateElements}

\* The object holds none of the dates get_capture_date searches for.
NoCaptureDate ==
    \A i \in DOMAIN CaptureDateSearch :
        ~Truthy(search_metadata(metadata, CaptureDateSearch[i][1],
                                CaptureDateSearch[i][2]))

\* C14: get_capture_date returns None when it finds no capture date: no
\* xmp.CreateDate, no exif.DateTime, no exif.DateTimeOriginal and an empty
\* filename give None, not a date string and not an exception.
C14_NoCaptureDateIsNone ==
    (Called("get_capture_date") /\ NoCaptureDate /\ metadata.filename = PyStr(<<>>))
        => result.out = Returned(None)

\* The lines of a text: its parts between line feeds.
RECURSIVE Split(_, _)
Split(s, acc) ==
    IF s = <<>> THEN <<acc>>
    ELSE IF Head(s) = "\n" THEN <<acc>> \o Split(Tail(s), <<>>)
    ELSE Split(Tail(s), Append(acc, Head(s)))

Lines(s) == IF s = <<>> THEN <<>> ELSE Split(s, <<>>)

\* The items of the summary in their order: the label of each and whether
\* its source is present.
SummaryItems ==
    LET description == search_metadata(metadata, "dc", "description")
        keywords == search_metadata(metadata, "dc", "subject")
    IN  << <<"Date Created: ", ~NoCaptureDate>>,
           <<"Description: ", Truthy(description)>>,
           <<"Keywords: ", Truthy(keywords)>>,
           <<"Location: ", Location(metadata) # <<>> >> >>

\* C15: the summary has at most one line per item, in the order Date
\* Created, Description, Keywords, Location, and a line for an item if and
\* only if the source of the item is present; the Location line lists the
\* present ones of Iptc4xmpCore.Location, photoshop.City and
\* photoshop.State in that order.
C15_SummaryLines ==
    Called("image_info") =>
        /\ ~result.out.raised
        /\ LET lines == Lines(result.out.value.v)
               present == SelectSeq(SummaryItems, LAMBDA item : item[2])
           IN  /\ Len(lines) = Len(present)
               /\ \A i \in DOMAIN lines : lines[i][1] = present[i][1]
               /\ \A i \in DOMAIN lines :
                     lines[i][1] = "Location: " =>
                        Tail(lines[i]) = JoinValue(<<",", " ">>, PyList(Location(metadata)))

\* The elements of the packet that hold plain text and nothing else, with
\* the prefix and local name searched for.
PlainTextElements(prefix, localname) ==
    {e \in PacketElements :
        /\ HasText(e) /\ e.children = <<>> /\ e.attrib = NoAttrib
        /\ Prefix(e.tag[1]) = prefix /\ LocalName(e.tag) = localname}

\* C16: an element that contains only plain text, such as photoshop:City,
\* is represented in the generic map by its text: searching the map for the
\* prefix and local name of the element yields the text of the element.
C16_PlainTextElementIsItsText ==
    (Called("search_metadata") /\ xmp = "wellformed"
        /\ PlainTextElements(result.args[1], result.args[2]) # {})
    => result.out.value \in
          {e.text : e \in PlainTextElements(result.args[1], result.args[2])}

\* A Metadata object was built for a well-formed packet with properties.
MapBuilt == pc = "metadata" /\ ~metadata.raised /\ xmp = "wellformed" /\ descs # <<>>

\* The parent map of the properties: the dict the generic map holds for
\* rdf:Description.
PropertiesMap ==
    DictGet(DictGet(DictGet(metadata.metadata_dict.v, "xmpmeta").v, "RDF").v,
            "Description").v

\* The property elements of the packet.
PropertyElements ==
    UNION {{descs[i].children[j] : j \in DOMAIN descs[i].children} : i \in DOMAIN descs}

\* The property elements whose only child is a container of these names.
Wrapping(cnames) ==
    {e \in PropertyElements :
        Len(e.children) = 1 /\ e.children[1].tag \in {RdfTag(c) : c \in cnames}}

\* One entry per item of a container: its attributes if it has any,
\* otherwise its text.
ItemEntries(container) ==
    PyList([i \in DOMAIN container.children |->
              IF container.children[i].attrib # NoAttrib
              THEN PyAttrib(container.children[i].attrib)
              ELSE container.children[i].text])

\* C17: for an element whose only child is a Bag or Seq container the
\* finished generic map holds, at parent[prefix][local name], the list of
\* one entry per item of the container in document order, and the parent
\* map has no plain entry under the local name.
C17_ArrayPromotedToList ==
    MapBuilt =>
        \A e \in Wrapping({"Bag", "Seq"}) :
            /\ DictHas(PropertiesMap, Prefix(e.tag[1]))
            /\ DictHas(DictGet(PropertiesMap, Prefix(e.tag[1])).v, LocalName(e.tag))
            /\ DictGet(DictGet(PropertiesMap, Prefix(e.tag[1])).v, LocalName(e.tag))
                  = ItemEntries(e.children[1])
            /\ ~DictHas(PropertiesMap, LocalName(e.tag))

\* The property elements that have a container child.
WithContainer ==
    {e \in PropertyElements :
        \E i \in DOMAIN e.children : LocalName(e.children[i].tag) \in ContainerNames}

\* The promoted entry parent[prefix][name] exists.
HasPromoted(prefix, name) ==
    DictHas(PropertiesMap, prefix) /\ DictHas(DictGet(PropertiesMap, prefix).v, name)

\* C18: in the finished generic map every element with a Bag, Seq or Alt
\* child is represented only by the promoted entry parent[prefix][name], a
\* list for Bag and Seq and not a map for Alt: no name has both a plain
\* entry parent[name] and a promoted entry, sibling elements that share a
\* local name included.
C18_NeverPlainAndPromoted ==
    MapBuilt =>
        \A e \in WithContainer :
            LET prefix == Prefix(e.tag[1])
                name == LocalName(e.tag)
            IN  /\ HasPromoted(prefix, name)
                /\ DictGet(DictGet(PropertiesMap, prefix).v, name).t # "dict"
                /\ LocalName(e.children[1].tag) \in {"Bag", "Seq"} =>
                      DictGet(DictGet(PropertiesMap, prefix).v, name).t = "list"
                /\ ~DictHas(PropertiesMap, name)

\* The Exif pair has a declared field: the tag-name table has a name for its
\* tag id and the record declares a field of that name.
Declared(pair) == pair[1] \in DOMAIN TAGS /\ TAGS[pair[1]] \in ExifFields

\* C19: building the Exif entries of an image never fails, whatever its
\* raw pairs are, tag ids unknown to the tag-name table included; a pair
\* without a declared field is dropped and contributes no entry.
C19_UndeclaredExifPairDropped ==
    (pc = "metadata" /\ xmp = "absent") =>
        /\ ~metadata.raised
        /\ LET kept == SelectSeq(pil_image.exif, Declared)
           IN  kept # <<>> =>
                  /\ DictHas(metadata.metadata_dict.v, "exif")
                  /\ DictGet(metadata.metadata_dict.v, "exif")
                        = PyDict([i \in DOMAIN kept |-> <<TAGS[kept[i][1]], kept[i][2]>>])

\* Every thread has finished its read.
AllDone == readers.field # None /\ \A r \in Readers : readers.at[r] = "done"

\* The cell of the field the threads read holds this value.
Cached(value) ==
    /\ FieldId(readers.field) \in DOMAIN cache
    /\ cache[FieldId(readers.field)] = value

Cell(rec, name) == <<rec, name>>

\* C21: reading a field of a namespace record changes only the cache cell
\* of that field on that record: the shared document, the cells of every
\* other record built on it and the cells of the other fields of the same
\* record are left as they were.
C21_ReadChangesOwnCellOnly ==
    [][ (pc = "built" /\ pc' = "built" /\ last'.field # None) =>
            /\ xml_tree' = xml_tree
            /\ descs' = descs
            /\ \A id \in DOMAIN cache : id \in DOMAIN cache' /\ cache'[id] = cache[id]
            /\ (DOMAIN cache' \ DOMAIN cache)
                  \subseteq {Cell(last'.field.rec, last'.field.name)} ]_vars

\* Fields of two records have been read: the last read filled its own cell
\* while the cell of a field of another record was there.
C21_Witness ==
    /\ pc = "built" /\ HasRead
    /\ Cell(last.field.rec, last.field.name) \in DOMAIN cache
    /\ \E id \in DOMAIN cache : id[1] # last.field.rec

\* The entry parent[prefix][name] the map holds for a property element.
PromotedEntry(e) ==
    DictGet(DictGet(PropertiesMap, Prefix(e.tag[1])).v, LocalName(e.tag))

\* C22: an element whose child is an Alt container is represented in the
\* generic map by a single scalar, never a list: the text of the item
\* flagged x-default, of the last such item in document order when there
\* are several.
C22_AltIsScalar ==
    MapBuilt =>
        \A e \in Wrapping({"Alt"}) :
            LET flagged == AltDefault(e.children[1].children)
            IN  /\ HasPromoted(Prefix(e.tag[1]), LocalName(e.tag))
                /\ PromotedEntry(e).t # "list"
                /\ flagged # <<>> => PromotedEntry(e) = flagged[Len(flagged)].text

\* The index of the first rdf:Description that carries the attribute, and
\* of the first one that has a property element of the local name.
FirstCarrier(key) ==
    CHOOSE i \in DOMAIN descs :
        /\ key \in AttribKeys(descs[i].attrib)
        /\ \A j \in 1..(i - 1) : key \notin AttribKeys(descs[j].attrib)

NamedChildren(d, name) == SelectSeq(d.children, LAMBDA e : LocalName(e.tag) = name)

FirstNamed(name) ==
    LET i == CHOOSE i \in DOMAIN descs :
                 /\ NamedChildren(descs[i], name) # <<>>
                 /\ \A j \in 1..(i - 1) : NamedChildren(descs[j], name) = <<>>
    IN  NamedChildren(descs[i], name)[1]

\* C23: the generic map is built first-write-wins.  Of the sibling elements
\* that share a local name, what the first one recorded is still in the
\* finished map: its plain entry if it has no container, and under each
\* prefix the first value recorded for an attribute name.
C23_FirstWriteWins ==
    MapBuilt =>
        /\ \A key \in UNION {AttribKeys(descs[i].attrib) : i \in DOMAIN descs} :
              /\ DictHas(PropertiesMap, AttribPrefix(key[1]))
              /\ DictHas(DictGet(PropertiesMap, AttribPrefix(key[1])).v, LocalName(key))
              /\ DictGet(DictGet(PropertiesMap, AttribPrefix(key[1])).v, LocalName(key))
                    = PyStr(AttribGet(descs[FirstCarrier(key)].attrib, key))
        /\ \A name \in {LocalName(e.tag) : e \in PropertyElements} :
              FirstNamed(name).children = <<>> => DictHas(PropertiesMap, name)

\* The outcome of the generic map builder on the packet of the image.
BuilderOutcome == build_xmp_dictionary(parse_xml(TRUE, Packet(descs)))

\* C24: for every well-formed document the generic map builder ends
\* without raising, also when an element has more than one container child
\* or other children next to a container: the builder returns a map, and
\* Metadata is constructed for an image without Exif data.
C24_BuilderNeverRaises ==
    (pc = "metadata" /\ xmp = "wellformed") =>
        /\ ~BuilderOutcome.raised
        /\ pil_image.exif = <<>> => ~metadata.raised

\* C25: every value a namespace field access returns is None or an
\* instance of the declared type of the field, also when the text of the
\* element or the value of the attribute is empty or whitespace only.
C25_ReturnedValueIsTyped ==
    (pc = "built" /\ HasRead /\ ~last.out.raised) =>
        \/ last.out.value = None
        \/ IsInstance(last.out.value, last.field.annotation)
====
